---- MODULE Spec2Model ----
(***************************************************************************)
(* makesite.py: scaffolding of an nginx static site (create) and the       *)
(* certificate step that rewrites its configuration (enable_tls), modelled *)
(* over an explicit filesystem.  Every invocation of the tool is a process *)
(* that runs main() statement by statement; file contents are sequences of *)
(* text tokens in which NL and CR are the line terminators.                *)
(***************************************************************************)
EXTENDS Integers, Sequences, FiniteSets, TLC

\* ------------------------------------------------------------- bounds
\* invocations of the tool in one behaviour, one after the other
MaxRuns == 3
\* invocations of the tool in one behaviour when two operators run it at once
MaxConcRuns == 2
\* invocations of the tool in one behaviour that starts from a hand-written config
MaxTlsRuns == 2
\* entries already on disk under the four derived paths before the first run
MaxPre == 1
\* tokens of a configuration file that was on disk before the first run
MaxPreLen == 2

\* ------------------------------------------------------------- constants
CERTBOT_PATH == "/usr/bin/certbot"

NGINX_CONF_PATH == "/etc/nginx"

NGINX_LOG_PATH == "/var/log/nginx"

NGINX_WWW_PATH == "/var/www"

NL == "\n"

CR == "\r"

HASH == "#"

Names == {"a.com", "b.org"}

\* --cert_email: "" stands for the flag left out (None) or given empty
Emails == {"", "ops@a.com"}

Procs == {1, 2}

\* the site whose paths may hold entries before the first run
PreSite == "a.com"

DEFAULT_NGINX_SSL_HTML_CONF(name) ==
    << "server {", NL,
       "    listen 443 ssl http2;", NL,
       "    listen [::]:443 ssl http2;", NL,
       NL,
       "    server_name ", name, " www.", name, ";", NL,
       "    root /var/www/", name, ";", NL,
       NL,
       "    access_log /var/log/nginx/", name, "/access.log;", NL,
       "    error_log /var/log/nginx/", name, "/error.log warn;", NL,
       NL,
       "    #ssl", NL,
       "    ssl_certificate /etc/letsencrypt/live/", name, "/fullchain.pem;", NL,
       "    ssl_certificate_key /etc/letsencrypt/live/", name, "/privkey.pem;", NL,
       "    ssl_trusted_certificate /etc/letsencrypt/live/", name, "/chain.pem;", NL,
       NL,
       "    # security", NL,
       "    add_header X-Frame-Options \"SAMEORIGIN\" always;", NL,
       "    add_header X-XSS-Protection \"1; mode=block\" always;", NL,
       "    add_header X-Content-Type-Options \"nosniff\" always;", NL,
       "    add_header Referrer-Policy \"no-referrer-when-downgrade\" always;", NL,
       "    add_header Content-Security-Policy \"default-src 'self' http: https: data: blob: 'unsafe-inline'\" always;", NL,
       "    add_header Strict-Transport-Security \"max-age=31536000; includeSubDomains; preload\" always;", NL,
       NL,
       "    # . files", NL,
       "    location ~ /\\.(?!well-known) {", NL,
       "        deny all;", NL,
       "    }", NL,
       NL,
       "    location / {", NL,
       "        try_files $uri $uri/ /index.html;", NL,
       "    }", NL,
       "}", NL,
       NL,
       "server {", NL,
       "    listen 80;", NL,
       "    listen [::]:80;", NL,
       NL,
       "    server_name ", name, " www.", name, ";", NL,
       NL,
       "    # . files", NL,
       "    location ~ /\\.(?!well-known) {", NL,
       "        deny all;", NL,
       "    }", NL,
       NL,
       "    location / {", NL,
       "        return 301 https://", name, "$request_uri;", NL,
       "    }", NL,
       "}", NL >>

\* create writing the template of the certificate step
HtmlConfWrongTemplate(name) == DEFAULT_NGINX_SSL_HTML_CONF(name)

DEFAULT_NGINX_HTML_CONF(name) ==
    << "server {", NL,
       "    listen 80;", NL,
       "    listen [::]:80;", NL,
       NL,
       "    server_name ", name, " www.", name, ";", NL,
       "    root /var/www/", name, ";", NL,
       NL,
       "    access_log /var/log/nginx/", name, "/access.log;", NL,
       "    error_log /var/log/nginx/", name, "/error.log warn;", NL,
       NL,
       "    # security", NL,
       "    add_header X-Frame-Options \"SAMEORIGIN\" always;", NL,
       "    add_header X-XSS-Protection \"1; mode=block\" always;", NL,
       "    add_header X-Content-Type-Options \"nosniff\" always;", NL,
       "    add_header Referrer-Policy \"no-referrer-when-downgrade\" always;", NL,
       "    add_header Content-Security-Policy \"default-src 'self' http: https: data: blob: 'unsafe-inline'\" always;", NL,
       NL,
       "    # . files", NL,
       "    location ~ /\\.(?!well-known) {", NL,
       "        deny all;", NL,
       "    }", NL,
       NL,
       "    location / {", NL,
       "        try_files $uri $uri/ /index.html;", NL,
       "    }", NL,
       "}", NL >>

\* ------------------------------------------------------------- paths
\* os.path.join(...): a path is the tuple of its components
SaConf(name) == <<NGINX_CONF_PATH, "sites-available", name>>

SeConf(name) == <<NGINX_CONF_PATH, "sites-enabled", name>>

WwwPath(name) == <<NGINX_WWW_PATH, name>>

LogPath(name) == <<NGINX_LOG_PATH, name>>

\* the list the existence loop walks, in its order
CheckedPaths(name) == <<SaConf(name), SeConf(name), WwwPath(name), LogPath(name)>>

IndexHtml == "index.html"

\* two paths outside the tool's roots, the targets of symbolic links that were
\* on disk before the first run: one is a file, at the other there is nothing
ExtFile == <<"/srv", "shared.conf">>

ExtMissing == <<"/srv", "missing.conf">>

SitePaths == UNION {{SaConf(n), SeConf(n), WwwPath(n), LogPath(n)} : n \in Names}

Paths == SitePaths \cup {ExtFile, ExtMissing}

\* ------------------------------------------------------------- filesystem
NoNode == [kind |-> "none", data |-> <<>>, files |-> {}, to |-> <<>>]

FileNode(d) == [kind |-> "file", data |-> d, files |-> {}, to |-> <<>>]

\* a directory holds regular files: records [name, data]
DirNode(fl) == [kind |-> "dir", data |-> <<>>, files |-> fl, to |-> <<>>]

LinkNode(t) == [kind |-> "link", data |-> <<>>, files |-> {}, to |-> t]

\* the path a symbolic link chain ends at (no chain of the model is a cycle)
RECURSIVE Resolve(_, _)
Resolve(f, p) == IF f[p].kind = "link" THEN Resolve(f, f[p].to) ELSE p

\* os.path.lexists: there is an entry at the path itself
LExists(f, p) == f[p].kind # "none"

\* the existence test as os.path.lexists
ExistsNoFollow(f, p) == LExists(f, p)

\* os.path.exists follows symbolic links: a dangling link does not exist
Exists(f, p) == f[Resolve(f, p)].kind # "none"

\* os.makedirs(path, exist_ok=True)
MkdirErrorExistOk(f, p) == ""

\* os.mkdir does not follow a link at the path: any entry there is an error
MkdirError(f, p) == IF LExists(f, p) THEN "FileExistsError" ELSE ""

Mkdir(f, p) == [f EXCEPT ![p] = DirNode({})]

\* open(path, 'w') follows links, creates the file or truncates it
OpenWError(f, p) == IF f[Resolve(f, p)].kind = "dir" THEN "IsADirectoryError" ELSE ""

OpenW(f, p) == [f EXCEPT ![Resolve(f, p)] = FileNode(<<>>)]

\* the write replacing the entry at the path instead of following the link
WriteDataReplaceLink(f, p, d) == [f EXCEPT ![p] = FileNode(d)]

\* f.write(d) and the close that flushes it, on the file opened by OpenW
WriteData(f, p, d) == [f EXCEPT ![Resolve(f, p)] = FileNode(d)]

\* open(os.path.join(dir, fname), 'w') and the write, for a file in a directory
OpenInDirError(f, dir) == IF f[Resolve(f, dir)].kind # "dir" THEN "NotADirectoryError" ELSE ""

WriteInDir(f, dir, fname, d) ==
    LET q == Resolve(f, dir)
    IN  [f EXCEPT ![q] = DirNode({x \in f[q].files : x.name # fname}
                                  \cup {[name |-> fname, data |-> d]})]

\* open(path, 'r')
OpenRError(f, p) ==
    LET k == f[Resolve(f, p)].kind
    IN  IF k = "none" THEN "FileNotFoundError"
        ELSE IF k = "dir" THEN "IsADirectoryError" ELSE ""

ReadData(f, p) == f[Resolve(f, p)].data

\* os.symlink(src, dst): an entry at dst, even a dangling link, is an error
SymlinkError(f, dst) == IF LExists(f, dst) THEN "FileExistsError" ELSE ""

Symlink(f, src, dst) == [f EXCEPT ![dst] = LinkNode(src)]

\* ------------------------------------------------------------- text
\* text-mode reading (newline=None): "\r\n" and a lone "\r" are read as "\n"
Translate(d) ==
    LET m == [i \in 1..Len(d) |->
                IF d[i] = CR /\ ~(i < Len(d) /\ d[i + 1] = NL) THEN NL ELSE d[i]]
    IN  SelectSeq(m, LAMBDA t : t # CR)

\* f.readlines(): the lines of the text, each with its terminator; the last
\* line has none when the text does not end with one
ReadLines(d) ==
    LET at == SelectSeq([i \in 1..Len(d) |-> i], LAMBDA i : d[i] = NL)
        ends == IF d # <<>> /\ d[Len(d)] # NL THEN Append(at, Len(d)) ELSE at
    IN  [k \in 1..Len(ends) |->
            SubSeq(d, IF k = 1 THEN 1 ELSE ends[k - 1] + 1, ends[k])]

\* the loop skipping blank lines
CommentLineSkipBlank(line) == IF line = <<NL>> THEN line ELSE <<HASH>> \o line

\* "#%s" % line
CommentLine(line) == <<HASH>> \o line

\* the loop over lines lo..hi, halved so that the evaluation stays shallow
RECURSIVE CommentRange(_, _, _)
CommentRange(lines, lo, hi) ==
    IF lo > hi THEN <<>>
    ELSE IF lo = hi THEN CommentLine(lines[lo])
    ELSE LET mid == (lo + hi) \div 2
         IN  CommentRange(lines, lo, mid) \o CommentRange(lines, mid + 1, hi)

\* for line in lines: content += "#%s" % line
CommentOut(lines) == CommentRange(lines, 1, Len(lines))

\* datetime.now().strftime('%Y-%m-%d %H:%M:%S'): the clock at one-second
\* resolution, so two runs within one second print the same text
Stamp(t) == ToString(t)

\* '\n\n#=== Backup - %s ===\n' % stamp
BackupHeader(stamp) == <<NL, NL, HASH, "=== Backup - ", stamp, " ===", NL>>

\* ------------------------------------------------------------- state
VARIABLES
    fs,        \* the filesystem: Paths -> node
    clock,     \* the last second a run has read from the wall clock
    runs,      \* invocations started so far
    limit,     \* invocations the behaviour may start
    live,      \* the operators (processes) that run the tool
    pc,        \* per process: the statement it is at
    op,        \* per process: "create" or "enable_tls", the branch main() took
    name,      \* per process: args.name
    rc,        \* per process: exit status, -1 while running
    diag,      \* per process: the error it ended with, "" for none
    idx,       \* per process: position of the existence loop
    content,   \* per process: _obtain_cert's local string
    stamp,     \* per process: the timestamp text of this run's header
    certLog,   \* per process: return codes of the certificate tool in this run
    fs0,       \* per process: the filesystem when this run started
    mutated,   \* per process: this run has changed the filesystem
    issued,    \* per site: timestamps of the runs that rewrote its config
    torn,      \* per site: a rewrite failed after the file was truncated
    fsBoot     \* the filesystem before the first run

vars == <<fs, clock, runs, limit, live, pc, op, name, rc, diag, idx, content,
          stamp, certLog, fs0, mutated, issued, torn, fsBoot>>

\* what no action changes
frame == <<limit, live, fsBoot>>

\* ------------------------------------------------------------- initial states
RECURSIVE SeqsUpTo(_, _)
SeqsUpTo(S, n) ==
    IF n = 0 THEN {<<>>}
    ELSE LET shorter == SeqsUpTo(S, n - 1)
         IN  shorter \cup {Append(s, x) : s \in {t \in shorter : Len(t) = n - 1}, x \in S}

\* the entries something other than this tool may have left at a path
PreNodes(c0) == {FileNode(c0), DirNode({}), LinkNode(ExtFile), LinkNode(ExtMissing)}

\* a configuration written by hand: a comment line without final newline
SampleConf == <<"# by hand", CR, NL, "listen 80;">>

BootFs(pre, c0) ==
    [p \in Paths |->
        IF p \in DOMAIN pre THEN pre[p]
        ELSE IF p = ExtFile THEN FileNode(c0)
        ELSE NoNode]

InitProcs(ps, lim) ==
    /\ clock = 0
    /\ runs = 0
    /\ limit = lim
    /\ live = ps
    /\ pc = [p \in Procs |-> "idle"]
    /\ op = [p \in Procs |-> ""]
    /\ name = [p \in Procs |-> ""]
    /\ rc = [p \in Procs |-> -1]
    /\ diag = [p \in Procs |-> ""]
    /\ idx = [p \in Procs |-> 1]
    /\ content = [p \in Procs |-> <<>>]
    /\ stamp = [p \in Procs |-> ""]
    /\ certLog = [p \in Procs |-> <<>>]
    /\ fs0 = [p \in Procs |-> fs]
    /\ mutated = [p \in Procs |-> FALSE]
    /\ issued = [n \in Names |-> <<>>]
    /\ torn = [n \in Names |-> FALSE]
    /\ fsBoot = fs

\* one operator; at most MaxPre entries of any kind are already on disk, at
\* the paths of one site
Init ==
    /\ \E held \in SUBSET {SaConf(PreSite), SeConf(PreSite), WwwPath(PreSite), LogPath(PreSite)} :
          /\ Cardinality(held) <= MaxPre
          /\ \E pre \in [held -> PreNodes(SampleConf)] : fs = BootFs(pre, SampleConf)
    /\ InitProcs({1}, MaxRuns)

\* one operator; the enabled-config of one site is a file written by hand, or
\* a link to one, of any content of at most MaxPreLen tokens
InitTls ==
    /\ \E c0 \in SeqsUpTo({"x", NL, CR}, MaxPreLen) :
          \E node \in {FileNode(c0), LinkNode(ExtFile)} :
             fs = BootFs(SeConf(PreSite) :> node, c0)
    /\ InitProcs({1}, MaxTlsRuns)

\* two operators at once, on a disk that holds none of the sites
InitConc ==
    /\ fs = BootFs(<<>>, SampleConf)
    /\ InitProcs(Procs, MaxConcRuns)

\* ------------------------------------------------------------- steps
Goto(p, l) ==
    /\ pc' = [pc EXCEPT ![p] = l]
    /\ UNCHANGED <<rc, diag>>

\* sys.exit(1), or an exception nothing catches: exit status 1
Die(p, d) ==
    /\ pc' = [pc EXCEPT ![p] = "done"]
    /\ rc' = [rc EXCEPT ![p] = 1]
    /\ diag' = [diag EXCEPT ![p] = d]

\* main() returns: exit status 0
Finish(p) ==
    /\ pc' = [pc EXCEPT ![p] = "done"]
    /\ rc' = [rc EXCEPT ![p] = 0]
    /\ UNCHANGED diag

Touch(p) == mutated' = [mutated EXCEPT ![p] = TRUE]

\* main(): parse the arguments and take a branch
Main(p, n, get_cert, email) ==
    /\ p \in live
    /\ pc[p] \in {"idle", "done"}
    /\ runs < limit
    /\ runs' = runs + 1
    /\ name' = [name EXCEPT ![p] = n]
    /\ idx' = [idx EXCEPT ![p] = 1]
    /\ content' = [content EXCEPT ![p] = <<>>]
    /\ stamp' = [stamp EXCEPT ![p] = ""]
    /\ certLog' = [certLog EXCEPT ![p] = <<>>]
    /\ fs0' = [fs0 EXCEPT ![p] = fs]
    /\ mutated' = [mutated EXCEPT ![p] = FALSE]
    /\ IF get_cert
       THEN /\ op' = [op EXCEPT ![p] = "enable_tls"]
            /\ IF email = ""
               THEN /\ pc' = [pc EXCEPT ![p] = "done"]
                    /\ rc' = [rc EXCEPT ![p] = 1]
                    /\ diag' = [diag EXCEPT ![p] = "MissingParameter"]
               ELSE /\ pc' = [pc EXCEPT ![p] = "tls_check"]
                    /\ rc' = [rc EXCEPT ![p] = -1]
                    /\ diag' = [diag EXCEPT ![p] = ""]
       ELSE /\ op' = [op EXCEPT ![p] = "create"]
            /\ pc' = [pc EXCEPT ![p] = "check"]
            /\ rc' = [rc EXCEPT ![p] = -1]
            /\ diag' = [diag EXCEPT ![p] = ""]
    /\ UNCHANGED <<fs, clock, issued, torn, frame>>

\* _make_html_site: one round of the existence loop
CheckPath(p) ==
    /\ pc[p] = "check"
    /\ IF Exists(fs, CheckedPaths(name[p])[idx[p]])
       THEN Die(p, "PathConflict") /\ UNCHANGED idx
       ELSE IF idx[p] < Len(CheckedPaths(name[p]))
            THEN idx' = [idx EXCEPT ![p] = idx[p] + 1] /\ UNCHANGED <<pc, rc, diag>>
            ELSE Goto(p, "mkdir_www") /\ UNCHANGED idx
    /\ UNCHANGED <<fs, clock, runs, op, name, content, stamp, certLog, fs0,
                   mutated, issued, torn, frame>>

\* os.mkdir(www_path)
MkdirWww(p) ==
    /\ pc[p] = "mkdir_www"
    /\ \E ok \in BOOLEAN :
          LET e == IF ok THEN MkdirError(fs, WwwPath(name[p])) ELSE "OSError"
          IN  IF e # ""
              THEN Die(p, e) /\ UNCHANGED <<fs, mutated>>
              ELSE /\ fs' = Mkdir(fs, WwwPath(name[p]))
                   /\ Touch(p)
                   /\ Goto(p, "open_index")
    /\ UNCHANGED <<clock, runs, op, name, idx, content, stamp, certLog, fs0,
                   issued, torn, frame>>

\* open(os.path.join(www_path, 'index.html'), 'w')
OpenIndex(p) ==
    /\ pc[p] = "open_index"
    /\ \E ok \in BOOLEAN :
          LET e == IF ok THEN OpenInDirError(fs, WwwPath(name[p])) ELSE "OSError"
          IN  IF e # ""
              THEN Die(p, e) /\ UNCHANGED <<fs, mutated>>
              ELSE /\ fs' = WriteInDir(fs, WwwPath(name[p]), IndexHtml, <<>>)
                   /\ Touch(p)
                   /\ Goto(p, "write_index")
    /\ UNCHANGED <<clock, runs, op, name, idx, content, stamp, certLog, fs0,
                   issued, torn, frame>>

\* print(name, file=f): the name and a newline
IndexTextNewline(n) == <<n, NL>>

\* what create writes into index.html
IndexText(n) == <<n>>

\* f.write(name) and the close of index.html
WriteIndex(p) ==
    /\ pc[p] = "write_index"
    /\ \E ok \in BOOLEAN :
          IF ~ok
          THEN Die(p, "OSError") /\ UNCHANGED <<fs, mutated>>
          ELSE /\ fs' = WriteInDir(fs, WwwPath(name[p]), IndexHtml, IndexText(name[p]))
               /\ Touch(p)
               /\ Goto(p, "mkdir_log")
    /\ UNCHANGED <<clock, runs, op, name, idx, content, stamp, certLog, fs0,
                   issued, torn, frame>>

\* os.mkdir(log_path)
MkdirLog(p) ==
    /\ pc[p] = "mkdir_log"
    /\ \E ok \in BOOLEAN :
          LET e == IF ok THEN MkdirError(fs, LogPath(name[p])) ELSE "OSError"
          IN  IF e # ""
              THEN Die(p, e) /\ UNCHANGED <<fs, mutated>>
              ELSE /\ fs' = Mkdir(fs, LogPath(name[p]))
                   /\ Touch(p)
                   /\ Goto(p, "open_sa")
    /\ UNCHANGED <<clock, runs, op, name, idx, content, stamp, certLog, fs0,
                   issued, torn, frame>>

\* open(sa_conf, 'w') in a try block that passes on an error
OpenSaSwallow(p) ==
    /\ pc[p] = "open_sa"
    /\ \E ok \in BOOLEAN :
          LET e == IF ok THEN OpenWError(fs, SaConf(name[p])) ELSE "OSError"
          IN  IF e # ""
              THEN Goto(p, "symlink") /\ UNCHANGED <<fs, mutated>>
              ELSE /\ fs' = OpenW(fs, SaConf(name[p]))
                   /\ Touch(p)
                   /\ Goto(p, "write_sa")
    /\ UNCHANGED <<clock, runs, op, name, idx, content, stamp, certLog, fs0,
                   issued, torn, frame>>

\* open(sa_conf, 'w')
OpenSa(p) ==
    /\ pc[p] = "open_sa"
    /\ \E ok \in BOOLEAN :
          LET e == IF ok THEN OpenWError(fs, SaConf(name[p])) ELSE "OSError"
          IN  IF e # ""
              THEN Die(p, e) /\ UNCHANGED <<fs, mutated>>
              ELSE /\ fs' = OpenW(fs, SaConf(name[p]))
                   /\ Touch(p)
                   /\ Goto(p, "write_sa")
    /\ UNCHANGED <<clock, runs, op, name, idx, content, stamp, certLog, fs0,
                   issued, torn, frame>>

\* f.write(DEFAULT_NGINX_HTML_CONF.format(name=name)) and the close
WriteSa(p) ==
    /\ pc[p] = "write_sa"
    /\ \E ok \in BOOLEAN :
          IF ~ok
          THEN Die(p, "OSError") /\ UNCHANGED <<fs, mutated>>
          ELSE /\ fs' = WriteData(fs, SaConf(name[p]), DEFAULT_NGINX_HTML_CONF(name[p]))
               /\ Touch(p)
               /\ Goto(p, "symlink")
    /\ UNCHANGED <<clock, runs, op, name, idx, content, stamp, certLog, fs0,
                   issued, torn, frame>>

\* what the enabled-config is made to refer to
LinkSource(n) == SaConf(n)

\* os.symlink(sa_conf, se_conf), then main() prints and returns
MakeSymlink(p) ==
    /\ pc[p] = "symlink"
    /\ \E ok \in BOOLEAN :
          LET e == IF ok THEN SymlinkError(fs, SeConf(name[p])) ELSE "OSError"
          IN  IF e # ""
              THEN Die(p, e) /\ UNCHANGED <<fs, mutated>>
              ELSE /\ fs' = Symlink(fs, LinkSource(name[p]), SeConf(name[p]))
                   /\ Touch(p)
                   /\ Finish(p)
    /\ UNCHANGED <<clock, runs, op, name, idx, content, stamp, certLog, fs0,
                   issued, torn, frame>>

\* _obtain_cert: the site must have an enabled-config
TlsCheck(p) ==
    /\ pc[p] = "tls_check"
    /\ IF ~Exists(fs, SeConf(name[p]))
       THEN Die(p, "UnknownSite")
       ELSE Goto(p, "certbot")
    /\ UNCHANGED <<fs, clock, runs, op, name, idx, content, stamp, certLog, fs0,
                   mutated, issued, torn, frame>>

\* the return codes the certificate tool may end with
ReturnCodes == {0, 1}

\* the return code not looked at
AfterCertbotIgnore(p, code) == Goto(p, "read_conf")

\* what a return code of the certificate tool leads to
AfterCertbot(p, code) ==
    IF code # 0 THEN Die(p, "SubprocessFailure") ELSE Goto(p, "read_conf")

\* subprocess.run([CERTBOT_PATH, 'certonly', ...]) and the test of its code
RunCertbot(p) ==
    /\ pc[p] = "certbot"
    /\ \E code \in ReturnCodes :
          /\ certLog' = [certLog EXCEPT ![p] = Append(@, code)]
          /\ AfterCertbot(p, code)
    /\ UNCHANGED <<fs, clock, runs, op, name, idx, content, stamp, fs0,
                   mutated, issued, torn, frame>>

\* the backup block put before its header
NewContentHeaderLast(n, st, old) ==
    DEFAULT_NGINX_SSL_HTML_CONF(n) \o CommentOut(ReadLines(Translate(old)))
        \o BackupHeader(st)

\* the new content: the template, the header, the old lines commented out
NewContent(n, st, old) ==
    DEFAULT_NGINX_SSL_HTML_CONF(n) \o BackupHeader(st)
        \o CommentOut(ReadLines(Translate(old)))

\* content = ...format(name=name); open(se_conf, 'r'); the header; readlines
ReadConf(p) ==
    /\ pc[p] = "read_conf"
    /\ \E ok \in BOOLEAN, t \in {clock, clock + 1} :
          LET e == IF ok THEN OpenRError(fs, SeConf(name[p])) ELSE "OSError"
          IN  IF e # ""
              THEN Die(p, e) /\ UNCHANGED <<clock, content, stamp>>
              ELSE /\ clock' = t
                   /\ stamp' = [stamp EXCEPT ![p] = Stamp(t)]
                   /\ content' = [content EXCEPT ![p] =
                          NewContent(name[p], Stamp(t), ReadData(fs, SeConf(name[p])))]
                   /\ Goto(p, "open_conf")
    /\ UNCHANGED <<fs, runs, op, name, idx, certLog, fs0, mutated, issued, torn, frame>>

\* open(se_conf, 'w'): the file is empty from here on
OpenConf(p) ==
    /\ pc[p] = "open_conf"
    /\ \E ok \in BOOLEAN :
          LET e == IF ok THEN OpenWError(fs, SeConf(name[p])) ELSE "OSError"
          IN  IF e # ""
              THEN Die(p, e) /\ UNCHANGED <<fs, mutated>>
              ELSE /\ fs' = OpenW(fs, SeConf(name[p]))
                   /\ Touch(p)
                   /\ Goto(p, "write_conf")
    /\ UNCHANGED <<clock, runs, op, name, idx, content, stamp, certLog, fs0,
                   issued, torn, frame>>

\* f.write(content) and the close, then main() prints and returns
WriteConf(p) ==
    /\ pc[p] = "write_conf"
    /\ \E ok \in BOOLEAN :
          IF ~ok
          THEN /\ Die(p, "OSError")
               /\ torn' = [torn EXCEPT ![name[p]] = TRUE]
               /\ UNCHANGED <<fs, issued>>
          ELSE /\ fs' = WriteData(fs, SeConf(name[p]), content[p])
               /\ issued' = [issued EXCEPT ![name[p]] = Append(@, stamp[p])]
               /\ Finish(p)
               /\ UNCHANGED torn
    /\ UNCHANGED <<clock, runs, op, name, idx, content, stamp, certLog, fs0,
                   mutated, frame>>

Next ==
    \/ \E p \in Procs, n \in Names, g \in BOOLEAN, e \in Emails : Main(p, n, g, e)
    \/ \E p \in Procs : CheckPath(p)
    \/ \E p \in Procs : MkdirWww(p)
    \/ \E p \in Procs : OpenIndex(p)
    \/ \E p \in Procs : WriteIndex(p)
    \/ \E p \in Procs : MkdirLog(p)
    \/ \E p \in Procs : OpenSa(p)
    \/ \E p \in Procs : WriteSa(p)
    \/ \E p \in Procs : MakeSymlink(p)
    \/ \E p \in Procs : TlsCheck(p)
    \/ \E p \in Procs : RunCertbot(p)
    \/ \E p \in Procs : ReadConf(p)
    \/ \E p \in Procs : OpenConf(p)
    \/ \E p \in Procs : WriteConf(p)

Spec == Init /\ [][Next]_vars

SpecTls == InitTls /\ [][Next]_vars

SpecConc == InitConc /\ [][Next]_vars

\* ------------------------------------------------------------- vocabulary of the claims
FourPaths(n) == {SaConf(n), SeConf(n), WwwPath(n), LogPath(n)}

\* none of the four derived paths holds an entry of any kind
Nonexistent(f, n) == \A q \in FourPaths(n) : f[q].kind = "none"

\* the text read through the enabled-config path
ConfigText(f, n) == f[Resolve(f, SeConf(n))].data

HasConfig(f, n) == f[Resolve(f, SeConf(n))].kind = "file"

StartsWith(d, prefix) ==
    /\ Len(d) >= Len(prefix)
    /\ SubSeq(d, 1, Len(prefix)) = prefix

DropFirst(d, k) == SubSeq(d, k + 1, Len(d))

HttpOnly(f, n) == HasConfig(f, n) /\ ConfigText(f, n) = DEFAULT_NGINX_HTML_CONF(n)

HttpsEnabled(f, n) ==
    HasConfig(f, n) /\ StartsWith(ConfigText(f, n), DEFAULT_NGINX_SSL_HTML_CONF(n))

\* the positions of d at which a line begins
LineStarts(d) == {i \in 1..Len(d) : i = 1 \/ d[i - 1] = NL}

\* d without the first token of each of its lines
Uncomment(d) ==
    LET tagged == [i \in 1..Len(d) |-> <<d[i], i \in LineStarts(d)>>]
        kept == SelectSeq(tagged, LAMBDA x : ~x[2])
    IN  [i \in 1..Len(kept) |-> kept[i][1]]

\* the timestamps of the backup headers of d, from the top of the file down:
\* a header is a line made of comment markers and then "=== Backup - <stamp> ==="
HeaderStamps(d) ==
    LET isHeader(i) ==
            /\ d[i] = "=== Backup - "
            /\ i > 1 /\ i + 3 <= Len(d)
            /\ d[i + 2] = " ===" /\ d[i + 3] = NL
            /\ \E s \in LineStarts(d) : s < i /\ \A j \in s..(i - 1) : d[j] = HASH
        tagged == [i \in 1..Len(d) |-> <<IF i < Len(d) THEN d[i + 1] ELSE "", isHeader(i)>>]
        kept == SelectSeq(tagged, LAMBDA x : x[2])
    IN  [i \in 1..Len(kept) |-> kept[i][1]]

Reverse(s) == [i \in 1..Len(s) |-> s[Len(s) + 1 - i]]

\* the four artifacts of a complete create(n) put into filesystem f
WithSite(f, n) ==
    [f EXCEPT ![WwwPath(n)] = DirNode({[name |-> "index.html", data |-> <<n>>]}),
              ![LogPath(n)] = DirNode({}),
              ![SaConf(n)] = FileNode(DEFAULT_NGINX_HTML_CONF(n)),
              ![SeConf(n)] = LinkNode(<<"/etc/nginx", "sites-available", n>>)]

\* the site is exactly what a complete create(n) leaves
AsCreated(f, n) == \A q \in FourPaths(n) : f[q] = WithSite(f, n)[q]

\* the positions of the rendered text that hold the site name
Slots(d, n) == {i \in 1..Len(d) : d[i] = n}

\* ------------------------------------------------------------- C1
\* C1: a create(n) that starts with an entry of any kind (file, directory or
\* symbolic link) at one of the four derived paths changes nothing on disk
\* and exits non-zero.
C1_ConflictChangesNothing ==
    \A p \in Procs :
        (op[p] = "create" /\ ~Nonexistent(fs0[p], name[p]))
            => /\ ~mutated[p]
               /\ fs = fs0[p]
               /\ (pc[p] = "done" => rc[p] # 0)

\* ------------------------------------------------------------- C2
\* C2: a create(n) that starts with none of the four paths on disk and ends
\* with exit status 0 leaves exactly: www/n holding only index.html with
\* content n, the empty directory log/n, sites-available/n holding the HTTP
\* template with n in each of its five slots (and no other site's name), and
\* sites-enabled/n a symbolic link to sites-available/n; nothing else changes.
C2_CreateResult ==
    \A p \in Procs :
        (op[p] = "create" /\ pc[p] = "done" /\ rc[p] = 0 /\ Nonexistent(fs0[p], name[p]))
            => LET n == name[p]
                   conf == fs[SaConf(n)].data
               IN  /\ fs = WithSite(fs0[p], n)
                   /\ Cardinality(Slots(conf, n)) = 5
                   /\ \A m \in Names \ {n} : Slots(conf, m) = {}

C2_Witness ==
    \E p \in Procs :
        /\ op[p] = "create" /\ pc[p] = "done" /\ rc[p] = 0
        /\ Nonexistent(fs0[p], name[p])
        /\ fs[SeConf(name[p])].kind = "link"

\* ------------------------------------------------------------- C3
\* C3: a successful enable_tls(n) on an enabled-config of content P leaves the
\* enabled-config equal to the HTTPS template for n, then one timestamp header,
\* then the lines of P in their order, each behind one '#': taking the first
\* token off every line of the block gives P back (its line ends read as "\n"),
\* and the block has a line exactly where P has one.
C3_BackupBlock ==
    \A p \in Procs :
        (op[p] = "enable_tls" /\ pc[p] = "done" /\ rc[p] = 0)
            => LET n == name[p]
                   prior == ConfigText(fs0[p], n)
                   now == ConfigText(fs, n)
                   tpl == DEFAULT_NGINX_SSL_HTML_CONF(n)
                   head == <<NL, NL, HASH, "=== Backup - ", stamp[p], " ===", NL>>
                   block == DropFirst(now, Len(tpl) + Len(head))
               IN  /\ StartsWith(now, tpl \o head)
                   /\ \A i \in LineStarts(block) : block[i] = HASH
                   /\ Uncomment(block) = Translate(prior)
                   /\ Cardinality(LineStarts(block)) = Cardinality(LineStarts(Translate(prior)))

C3_Witness ==
    \E p \in Procs :
        /\ op[p] = "enable_tls" /\ pc[p] = "done" /\ rc[p] = 0
        /\ Cardinality(LineStarts(ConfigText(fs0[p], name[p]))) >= 2
        /\ \E i \in 1..Len(ConfigText(fs0[p], name[p])) : ConfigText(fs0[p], name[p])[i] = CR

\* ------------------------------------------------------------- C4
\* C4: an enable_tls(n) that starts while sites-enabled/n does not exist never
\* calls the certificate tool, changes nothing on disk and exits non-zero.
C4_UnknownSite ==
    \A p \in Procs :
        (op[p] = "enable_tls" /\ fs0[p][Resolve(fs0[p], SeConf(name[p]))].kind = "none")
            => /\ pc[p] \in {"tls_check", "done"}
               /\ certLog[p] = <<>>
               /\ ~mutated[p]
               /\ fs = fs0[p]
               /\ (pc[p] = "done" => rc[p] # 0)

C4_Witness ==
    \E p \in Procs :
        /\ op[p] = "enable_tls" /\ pc[p] = "done" /\ diag[p] = "UnknownSite"
        /\ fs0[p][Resolve(fs0[p], SeConf(name[p]))].kind = "none"

\* ------------------------------------------------------------- C5
\* C5: once the certificate tool has returned a non-zero code, the run is over
\* with a non-zero exit status, the tool was called once, and the disk is as
\* the run found it.
C5_CertFailure ==
    \A p \in Procs :
        (\E i \in 1..Len(certLog[p]) : certLog[p][i] # 0)
            => /\ pc[p] = "done"
               /\ rc[p] # 0
               /\ Len(certLog[p]) = 1
               /\ ~mutated[p]
               /\ fs = fs0[p]

C5_Witness ==
    \E p \in Procs :
        /\ op[p] = "enable_tls" /\ pc[p] = "done" /\ certLog[p] = <<1>>
        /\ HttpOnly(fs, name[p])

\* ------------------------------------------------------------- C6
\* a site the tool created from nothing, whose config no failed rewrite has
\* emptied and no run is rewriting right now
Settled(n) ==
    /\ Nonexistent(fsBoot, n)
    /\ HasConfig(fs, n)
    /\ ~torn[n]
    /\ \A p \in Procs : ~(pc[p] = "write_conf" /\ name[p] = n)

\* C6: after create(n) and k successful enable_tls(n) runs the config holds k
\* backup headers, the header of the latest run first; and every successful
\* run leaves the HTTPS template in front of a longer file than it found.
C6_HeadersNewestFirst ==
    /\ \A n \in Names :
          Settled(n) => HeaderStamps(ConfigText(fs, n)) = Reverse(issued[n])
    /\ \A p \in Procs :
          (op[p] = "enable_tls" /\ pc[p] = "done" /\ rc[p] = 0)
              => /\ Len(ConfigText(fs, name[p])) > Len(ConfigText(fs0[p], name[p]))
                 /\ HttpsEnabled(fs, name[p])

C6_Witness ==
    \E n \in Names :
        /\ Settled(n)
        /\ Len(issued[n]) = 2
        /\ issued[n][1] # issued[n][2]
        /\ HeaderStamps(ConfigText(fs, n)) = <<issued[n][2], issued[n][1]>>

\* ------------------------------------------------------------- C7
\* the run of p is a successful enable_tls on a site exactly as create left it
FirstTlsDone(p) ==
    /\ op[p] = "enable_tls" /\ pc[p] = "done" /\ rc[p] = 0
    /\ AsCreated(fs0[p], name[p])

\* C7 as claimed: after create(n) and a successful enable_tls(n) the file
\* sites-available/n still holds the HTTP-only configuration, and the web
\* root and the log directory are unchanged.
C7_AvailableUntouched ==
    \A p \in Procs :
        FirstTlsDone(p)
            => /\ fs[SaConf(name[p])] = FileNode(DEFAULT_NGINX_HTML_CONF(name[p]))
               /\ fs[WwwPath(name[p])] = fs0[p][WwwPath(name[p])]
               /\ fs[LogPath(name[p])] = fs0[p][LogPath(name[p])]

\* C7 amended: sites-enabled/n is still the symbolic link to sites-available/n
\* and the rewrite went through it: the file sites-available/n now holds the
\* HTTPS template, the header and the HTTP-only configuration commented out;
\* no other path changed.
C7_RewriteThroughLink ==
    \A p \in Procs :
        FirstTlsDone(p)
            => LET n == name[p]
                   tpl == DEFAULT_NGINX_SSL_HTML_CONF(n)
                   now == fs[SaConf(n)].data
               IN  /\ fs[SeConf(n)] = LinkNode(SaConf(n))
                   /\ fs[SaConf(n)].kind = "file"
                   /\ StartsWith(now, tpl)
                   /\ Uncomment(DropFirst(now, Len(tpl) + 7)) = DEFAULT_NGINX_HTML_CONF(n)
                   /\ \A q \in Paths \ {SaConf(n)} : fs[q] = fs0[p][q]

C7_Witness ==
    \E p \in Procs : FirstTlsDone(p) /\ fs[SaConf(name[p])] # fs0[p][SaConf(name[p])]

\* ------------------------------------------------------------- C8
\* what no run does to a site that started nonexistent: remove a path, turn
\* an https-enabled config back into the HTTP-only one, or produce the
\* HTTP-only site otherwise than by a successful create from nothing
NoWayBack(p, n) ==
    /\ \A q \in FourPaths(n) : fs0[p][q].kind # "none" => fs[q].kind # "none"
    /\ HttpsEnabled(fs0[p], n) => ~HttpOnly(fs, n)
    /\ (HttpOnly(fs, n) /\ ~HttpOnly(fs0[p], n))
          => Nonexistent(fs0[p], n) /\ op[p] = "create" /\ name[p] = n /\ rc[p] = 0

\* the run of p made the config of n https-enabled
TurnedHttps(p, n) == HttpsEnabled(fs, n) /\ ~HttpsEnabled(fs0[p], n)

Raced(p, q, n) ==
    /\ p # q
    /\ op[p] = "create" /\ op[q] = "create"
    /\ name[p] = n /\ name[q] = n
    /\ pc[p] = "done" /\ pc[q] = "done"
    /\ Nonexistent(fs0[p], n) /\ Nonexistent(fs0[q], n)
    /\ diag[p] # "OSError" /\ diag[q] # "OSError"

\* p won and q lost with one of the errors in errs, having changed nothing,
\* and the site is as one create leaves it
Outcome(p, q, n, errs) ==
    /\ rc[p] = 0
    /\ rc[q] # 0 /\ diag[q] \in errs /\ ~mutated[q]
    /\ AsCreated(fs, n)

\* C9 as claimed: of two concurrent create(n) exactly one succeeds and the
\* other ends with the filesystem's "already exists" error, not with the
\* tool's own path-conflict diagnostic.
C9_LoserSeesFileExists ==
    \A p, q \in Procs, n \in Names :
        Raced(p, q, n)
            => Outcome(p, q, n, {"FileExistsError"}) \/ Outcome(q, p, n, {"FileExistsError"})

\* C9 amended: exactly one succeeds; the other ends non-zero without changing
\* anything, with the "already exists" error when it had passed the existence
\* loop before the winner's first mkdir and with the path-conflict diagnostic
\* when its loop met a path the winner had already made.
C9_LoserSeesEither ==
    \A p, q \in Procs, n \in Names :
        Raced(p, q, n)
            => \/ Outcome(p, q, n, {"FileExistsError", "PathConflict"})
               \/ Outcome(q, p, n, {"FileExistsError", "PathConflict"})

C9_Witness ==
    \E p, q \in Procs, n \in Names :
        Raced(p, q, n) /\ rc[p] = 0 /\ diag[q] = "FileExistsError"

\* ------------------------------------------------------------- C10
\* C10: on a disk that started without the sites, in every state, also inside
\* a create and after one that stopped half way: if sites-enabled/n is there,
\* then www/n with its index.html, log/n and sites-available/n are there; and
\* an enable_tls(n) that is past its precondition finds all of them.
C10_EnabledLast ==
    /\ \A n \in Names :
          fs[SeConf(n)].kind # "none"
              => /\ fs[WwwPath(n)].kind = "dir"
                 /\ \E x \in fs[WwwPath(n)].files : x.name = "index.html"
                 /\ fs[LogPath(n)].kind = "dir"
                 /\ fs[SaConf(n)].kind = "file"
    /\ \A p \in Procs :
          pc[p] \in {"certbot", "read_conf", "open_conf", "write_conf"}
              => fs[SeConf(name[p])].kind = "link"

C10_Witness ==
    \E p, q \in Procs :
        /\ p # q
        /\ pc[p] = "certbot"
        /\ op[q] = "create" /\ pc[q] = "done" /\ name[q] = name[p]

====
